---- MODULE Spec2Model ----
(***************************************************************************)
(* Model of the trivia game page script (src/script.js).                   *)
(*                                                                         *)
(* Strings of the program are sequences of one-character strings, so that  *)
(* trimming, URL-encoding, URL-decoding and splitting are computed.        *)
(* The state is the browser state the script reads and writes: the cookie  *)
(* jar, the localStorage item "triviaScores", the DOM (username field,     *)
(* new-player button, loading and question containers, rendered question   *)
(* blocks with their radio selection, score table rows), the fetches in    *)
(* flight, the registered listeners, the last alert shown and the error    *)
(* that escaped from the last script run.                                  *)
(***************************************************************************)
EXTENDS Integers, Sequences, FiniteSets, TLC

VARIABLES
    now,             \* clock, in days
    cookieJar,       \* sequence of [name, value, expires], creation order
    storage,         \* localStorage item "triviaScores"
    usernameInput,   \* usernameInput.value
    newPlayerHidden, \* new-player button has class "hidden"
    loadingHidden,   \* #loading-container has class "hidden"
    questionHidden,  \* #question-container has class "hidden"
    rendered,        \* question blocks in #question-container
    selection,       \* per block, index of the checked radio (0: none)
    scoreTable,      \* rows of #score-table tbody
    fetchSeq,        \* number of fetches started by this document
    inflight,        \* fetches started and not yet settled
    renderedFrom,    \* fetch whose results fill the container (0: none)
    listeners,       \* events with a registered handler
    lastAlert,       \* alert shown by the last script run
    uncaught         \* error that escaped from the last script run

vars == <<now, cookieJar, storage, usernameInput, newPlayerHidden,
          loadingHidden, questionHidden, rendered, selection, scoreTable,
          fetchSeq, inflight, renderedFrom, listeners, lastAlert, uncaught>>

(***************************************************************************)
(* Bounds of the model and constants of the program.                       *)
(***************************************************************************)
MaxNow == 2
MaxLedger == 2
MaxFetches == 2
MaxQuestions == 2
MaxValueLen == 2
SessionDays == 7

(***************************************************************************)
(* Strings.                                                                *)
(***************************************************************************)
triviaUsername ==
    <<"t","r","i","v","i","a","U","s","e","r","n","a","m","e">>

null == <<"null">>

Bob == <<"B","o","b">>

RECURSIVE TrimStart(_)
TrimStart(s) ==
    IF s # <<>> /\ Head(s) = " " THEN TrimStart(Tail(s)) ELSE s

RECURSIVE TrimEnd(_)
TrimEnd(s) ==
    IF s # <<>> /\ s[Len(s)] = " " THEN TrimEnd(SubSeq(s, 1, Len(s) - 1)) ELSE s

Trim(s) == TrimEnd(TrimStart(s))

StartsWith(s, t) == Len(s) >= Len(t) /\ SubSeq(s, 1, Len(t)) = t

Substring(s, from) == SubSeq(s, from + 1, Len(s))

RECURSIVE Split(_, _)
Split(s, sep) ==
    IF \E i \in 1..Len(s) : s[i] = sep
    THEN LET i == CHOOSE k \in 1..Len(s) :
                      s[k] = sep /\ \A j \in 1..(k - 1) : s[j] # sep
         IN  <<SubSeq(s, 1, i - 1)>> \o Split(SubSeq(s, i + 1, Len(s)), sep)
    ELSE <<s>>

Escaped == {";", " ", "=", "%"}

PercentCode(c) ==
    CASE c = ";" -> <<"%","3","B">>
      [] c = " " -> <<"%","2","0">>
      [] c = "=" -> <<"%","3","D">>
      [] c = "%" -> <<"%","2","5">>

RECURSIVE encodeURIComponent(_)
encodeURIComponent(s) ==
    IF s = <<>> THEN <<>>
    ELSE (IF Head(s) \in Escaped THEN PercentCode(Head(s)) ELSE <<Head(s)>>)
         \o encodeURIComponent(Tail(s))

URIError == <<"URIError">>

RECURSIVE decodeURIComponent(_)
decodeURIComponent(s) ==
    IF s = <<>> THEN <<>>
    ELSE IF Head(s) # "%" THEN
        LET rest == decodeURIComponent(Tail(s))
        IN  IF rest = URIError THEN URIError ELSE <<Head(s)>> \o rest
    ELSE IF Len(s) >= 3 /\ \E c \in Escaped : PercentCode(c) = SubSeq(s, 1, 3) THEN
        LET c == CHOOSE e \in Escaped : PercentCode(e) = SubSeq(s, 1, 3)
            rest == decodeURIComponent(SubSeq(s, 4, Len(s)))
        IN  IF rest = URIError THEN URIError ELSE <<c>> \o rest
    ELSE URIError

(***************************************************************************)
(* Cookies: document.cookie, setCookie, getCookie, clearCookie.            *)
(* The jar keeps the encoded name and value of each cookie; an encoded     *)
(* string holds no ";" and no "=", so the attribute string written to      *)
(* document.cookie parses back to exactly (name, value, expires).          *)
(***************************************************************************)
Live(jar, t) == SelectSeq(jar, LAMBDA c : c.expires > t)

RECURSIVE JoinCookies(_)
JoinCookies(jar) ==
    IF jar = <<>> THEN <<>>
    ELSE LET pair == Head(jar).name \o <<"=">> \o Head(jar).value
         IN  IF Len(jar) = 1 THEN pair
             ELSE pair \o <<";", " ">> \o JoinCookies(Tail(jar))

DocumentCookie(jar, t) == JoinCookies(Live(jar, t))

StoreCookie(jar, t, name, value, expires) ==
    LET others == SelectSeq(jar, LAMBDA c : c.name # name)
        cookie == [name |-> name, value |-> value, expires |-> expires]
    IN  IF expires <= t THEN others
        ELSE IF \E i \in 1..Len(jar) : jar[i].name = name
             THEN [i \in 1..Len(jar) |->
                       IF jar[i].name = name THEN cookie ELSE jar[i]]
             ELSE Append(jar, cookie)

setCookie(jar, t, name, value, days) ==
    StoreCookie(jar, t, encodeURIComponent(name), encodeURIComponent(value),
                t + days)

RECURSIVE FirstMatch(_, _)
FirstMatch(cookies, target) ==
    IF cookies = <<>> THEN null
    ELSE LET cookie == Trim(Head(cookies))
         IN  IF StartsWith(cookie, target)
             THEN Substring(cookie, Len(target))
             ELSE FirstMatch(Tail(cookies), target)

getCookie(doc, name) ==
    LET decodedCookie == decodeURIComponent(doc)
        cookies == Split(decodedCookie, ";")
        target == name \o <<"=">>
    IN  FirstMatch(cookies, target)

clearCookieKeep(jar, t, name) == jar

clearCookie(jar, t, name) ==
    StoreCookie(jar, t, encodeURIComponent(name), <<>>, 0 - 1)

Truthy(v) == v # null /\ v # <<>>

InputValue(v) == IF v = null THEN <<>> ELSE v

(***************************************************************************)
(* checkUserSession and checkUsername, as functions of document.cookie.    *)
(***************************************************************************)
checkUserSession(doc) ==
    LET savedUsername == getCookie(doc, triviaUsername)
    IN  IF Truthy(savedUsername)
        THEN [value |-> savedUsername, hidden |-> FALSE]
        ELSE [value |-> <<>>, hidden |-> TRUE]

checkUsername(doc) == InputValue(getCookie(doc, triviaUsername))

(***************************************************************************)
(* localStorage item "triviaScores" and saveScore.  The item is absent     *)
(* (getItem gives null), the empty string, text that is not JSON, JSON     *)
(* that is not an array, or the JSON text of an array of entries.          *)
(* JSON.stringify of an array of {username, score} and JSON.parse of that  *)
(* text give the array back; the other texts make JSON.parse or push throw.*)
(***************************************************************************)
Absent == [kind |-> "absent", entries |-> <<>>]
Corrupt == [kind |-> "invalid", entries |-> <<>>]
NotArray == [kind |-> "nonarray", entries |-> <<>>]

JSONstringify(scoresArray) == [kind |-> "array", entries |-> scoresArray]

saveScoreOverwrite(stored, username, score) ==
    [threw |-> "none",
     store |-> JSONstringify(<<[username |-> username, score |-> score]>>)]

saveScore(stored, username, score) ==
    LET entry == [username |-> username, score |-> score]
    IN  CASE stored.kind \in {"absent", "empty"} ->
                 [threw |-> "none", store |-> JSONstringify(<<entry>>)]
          [] stored.kind = "invalid" ->
                 [threw |-> "SyntaxError", store |-> stored]
          [] stored.kind = "nonarray" ->
                 [threw |-> "TypeError", store |-> stored]
          [] stored.kind = "array" ->
                 [threw |-> "none",
                  store |-> JSONstringify(Append(stored.entries, entry))]

updateScoreTable(rows, username, score) ==
    Append(rows, [username |-> username, score |-> score])

(***************************************************************************)
(* Questions of the API and their rendering.  Answer texts are plain text. *)
(***************************************************************************)
QuestionPool ==
    { [correct_answer |-> "x", incorrect_answers |-> <<>>],
      [correct_answer |-> "x", incorrect_answers |-> <<"y">>],
      [correct_answer |-> "x", incorrect_answers |-> <<"x">>] }

RECURSIVE SeqsOfLen(_, _)
SeqsOfLen(S, n) ==
    IF n = 0 THEN {<<>>}
    ELSE {<<x>> \o r : x \in S, r \in SeqsOfLen(S, n - 1)}

SeqsUpTo(S, n) == UNION {SeqsOfLen(S, k) : k \in 0..n}

Responses == SeqsUpTo(QuestionPool, MaxQuestions)

RoundResponses ==
    {<<>>, <<[correct_answer |-> "x", incorrect_answers |-> <<"y">>]>>}

Orders(n) == {p \in [1..n -> 1..n] : \A i, j \in 1..n : p[i] = p[j] => i = j}

createAnswerOptionsTagAll(correctAnswer, incorrectAnswers, order) ==
    LET allAnswers == <<correctAnswer>> \o incorrectAnswers
    IN  [i \in 1..Len(allAnswers) |->
            [value |-> allAnswers[order[i]], correct |-> TRUE]]

createAnswerOptions(correctAnswer, incorrectAnswers, order) ==
    LET allAnswers == <<correctAnswer>> \o incorrectAnswers
    IN  [i \in 1..Len(allAnswers) |->
            [value |-> allAnswers[order[i]],
             correct |-> allAnswers[order[i]] = correctAnswer]]

displayQuestions(questions, orders) ==
    [index \in 1..Len(questions) |->
        createAnswerOptions(questions[index].correct_answer,
                            questions[index].incorrect_answers,
                            orders[index])]

RECURSIVE ShuffleOrders(_)
ShuffleOrders(questions) ==
    IF questions = <<>> THEN {<<>>}
    ELSE {<<p>> \o r :
            p \in Orders(1 + Len(Head(questions).incorrect_answers)),
            r \in ShuffleOrders(Tail(questions))}

RECURSIVE selectedAnswers(_, _)
selectedAnswers(blocks, sel) ==
    IF blocks = <<>> THEN <<>>
    ELSE (IF Head(sel) = 0 THEN <<>> ELSE <<Head(blocks)[Head(sel)]>>)
         \o selectedAnswers(Tail(blocks), Tail(sel))

calculateScoreAllChecked(blocks, sel) == Len(selectedAnswers(blocks, sel))

calculateScore(blocks, sel) ==
    Len(SelectSeq(selectedAnswers(blocks, sel), LAMBDA answer : answer.correct))

Unchecked(blocks) == [i \in 1..Len(blocks) |-> 0]

(***************************************************************************)
(* State after the DOMContentLoaded callback has run, and the inputs.      *)
(***************************************************************************)
NoAlert == [kind |-> "none", score |-> 0]
ValidationAlert == [kind |-> "validation", score |-> 0]
FinishedAlert(score) == [kind |-> "finished", score |-> score]

Handlers == {"submit", "click"}

UsernameInputs == {<<>>, <<" ">>, Bob}

InitJars ==
    {<<>>, setCookie(<<>>, 1 - SessionDays, triviaUsername, Bob, SessionDays)}

InitStorage == {Absent, Corrupt, NotArray}

showLoadingKeepQuestions(isLoading) ==
    [loading |-> ~isLoading, question |-> FALSE]

showLoadingStuck(isLoading) == [loading |-> FALSE, question |-> isLoading]

showLoading(isLoading) ==
    [loading |-> ~isLoading, question |-> isLoading]

\* Lines 12-15 of the callback run; displayScores is not defined anywhere, so
\* line 15 throws a ReferenceError and lines 175-176 are never reached.
DOMContentLoaded(doc) ==
    [usernameInput |-> checkUsername(doc),
     newPlayerHidden |-> checkUserSession(doc).hidden,
     loadingHidden |-> showLoading(TRUE).loading,
     questionHidden |-> showLoading(TRUE).question,
     listeners |-> {},
     uncaught |-> "ReferenceError"]

Init ==
    /\ now = 0
    /\ cookieJar \in InitJars
    /\ storage \in InitStorage
    /\ LET page == DOMContentLoaded(DocumentCookie(cookieJar, now))
       IN  /\ usernameInput = page.usernameInput
           /\ newPlayerHidden = page.newPlayerHidden
           /\ loadingHidden = page.loadingHidden
           /\ questionHidden = page.questionHidden
           /\ listeners = page.listeners
           /\ uncaught = page.uncaught
    /\ rendered = <<>>
    /\ selection = <<>>
    /\ scoreTable = <<>>
    /\ fetchSeq = 1
    /\ inflight = {1}
    /\ renderedFrom = 0
    /\ lastAlert = NoAlert

(***************************************************************************)
(* The page is loaded again: a new document, the same cookies and storage. *)
(* Fetches of the old document are dropped with it.                        *)
(***************************************************************************)
PageLoad ==
    /\ LET page == DOMContentLoaded(DocumentCookie(cookieJar, now))
       IN  /\ usernameInput' = page.usernameInput
           /\ newPlayerHidden' = page.newPlayerHidden
           /\ loadingHidden' = page.loadingHidden
           /\ questionHidden' = page.questionHidden
           /\ listeners' = page.listeners
           /\ uncaught' = page.uncaught
    /\ rendered' = <<>>
    /\ selection' = <<>>
    /\ scoreTable' = <<>>
    /\ fetchSeq' = 1
    /\ inflight' = {1}
    /\ renderedFrom' = 0
    /\ lastAlert' = NoAlert
    /\ UNCHANGED <<now, cookieJar, storage>>

(***************************************************************************)
(* The user types a name, or checks a radio of a rendered question.        *)
(***************************************************************************)
TypeUsername(text) ==
    /\ usernameInput' = text
    /\ UNCHANGED <<now, cookieJar, storage, newPlayerHidden, loadingHidden,
                   questionHidden, rendered, selection, scoreTable, fetchSeq,
                   inflight, renderedFrom, listeners, lastAlert, uncaught>>

SelectAnswer(index, choice) ==
    /\ index \in 1..Len(rendered)
    /\ choice \in 1..Len(rendered[index])
    /\ selection' = [selection EXCEPT ![index] = choice]
    /\ UNCHANGED <<now, cookieJar, storage, usernameInput, newPlayerHidden,
                   loadingHidden, questionHidden, rendered, scoreTable,
                   fetchSeq, inflight, renderedFrom, listeners, lastAlert,
                   uncaught>>

(***************************************************************************)
(* Settlement of a fetch started by fetchQuestions.                        *)
(*   FetchResolve: the body parsed and data.results is `questions`.        *)
(*   FetchNoResults: the body parsed but has no results array; the         *)
(*     container is cleared, forEach throws and the catch handles it.      *)
(*   FetchReject: network error, or a body that is not JSON.               *)
(***************************************************************************)
FetchResolve(id, questions) ==
    /\ id \in inflight
    /\ \E orders \in ShuffleOrders(questions) :
          rendered' = displayQuestions(questions, orders)
    /\ selection' = Unchecked(questions)
    /\ renderedFrom' = id
    /\ loadingHidden' = showLoading(FALSE).loading
    /\ questionHidden' = showLoading(FALSE).question
    /\ inflight' = inflight \ {id}
    /\ lastAlert' = NoAlert
    /\ uncaught' = "none"
    /\ UNCHANGED <<now, cookieJar, storage, usernameInput, newPlayerHidden,
                   scoreTable, fetchSeq, listeners>>

FetchNoResults(id) ==
    /\ id \in inflight
    /\ rendered' = <<>>
    /\ selection' = <<>>
    /\ renderedFrom' = 0
    /\ loadingHidden' = showLoading(FALSE).loading
    /\ questionHidden' = showLoading(FALSE).question
    /\ inflight' = inflight \ {id}
    /\ lastAlert' = NoAlert
    /\ uncaught' = "none"
    /\ UNCHANGED <<now, cookieJar, storage, usernameInput, newPlayerHidden,
                   scoreTable, fetchSeq, listeners>>

FetchReject(id) ==
    /\ id \in inflight
    /\ loadingHidden' = showLoading(FALSE).loading
    /\ questionHidden' = showLoading(FALSE).question
    /\ inflight' = inflight \ {id}
    /\ lastAlert' = NoAlert
    /\ uncaught' = "none"
    /\ UNCHANGED <<now, cookieJar, storage, usernameInput, newPlayerHidden,
                   rendered, selection, scoreTable, fetchSeq, renderedFrom,
                   listeners>>

(***************************************************************************)
(* handleFormSubmit.  An accepted submit is bounded by MaxLedger entries.  *)
(***************************************************************************)
usernameAlwaysGiven(username) == FALSE

usernameMissing(username) == username = <<>>

HandleFormSubmit ==
    LET username == Trim(usernameInput)
        doc == DocumentCookie(cookieJar, now)
        existingUsername == getCookie(doc, triviaUsername)
        jar == IF ~Truthy(existingUsername) \/ existingUsername # username
               THEN setCookie(cookieJar, now, triviaUsername, username,
                              SessionDays)
               ELSE cookieJar
        score == calculateScore(rendered, selection)
        saved == saveScore(storage, username, score)
        session == checkUserSession(DocumentCookie(jar, now))
    IN  IF usernameMissing(username)
        THEN /\ lastAlert' = ValidationAlert
             /\ uncaught' = "none"
             /\ UNCHANGED <<now, cookieJar, storage, usernameInput,
                            newPlayerHidden, loadingHidden, questionHidden,
                            rendered, selection, scoreTable, fetchSeq,
                            inflight, renderedFrom, listeners>>
        ELSE /\ Len(storage.entries) < MaxLedger
             /\ cookieJar' = jar
             /\ IF saved.threw # "none"
                THEN /\ uncaught' = saved.threw
                     /\ lastAlert' = NoAlert
                     /\ UNCHANGED <<storage, scoreTable, usernameInput,
                                    newPlayerHidden>>
                ELSE /\ uncaught' = "none"
                     /\ storage' = saved.store
                     /\ scoreTable' = updateScoreTable(scoreTable, username, score)
                     /\ lastAlert' = FinishedAlert(score)
                     /\ usernameInput' = session.value
                     /\ newPlayerHidden' = session.hidden
             /\ UNCHANGED <<now, loadingHidden, questionHidden, rendered,
                            selection, fetchSeq, inflight, renderedFrom,
                            listeners>>

(***************************************************************************)
(* newPlayer.  The fetches one document starts are bounded by MaxFetches.  *)
(***************************************************************************)
NewPlayer ==
    /\ fetchSeq < MaxFetches
    /\ cookieJar' = clearCookie(cookieJar, now, triviaUsername)
    /\ usernameInput' = <<>>
    /\ rendered' = <<>>
    /\ selection' = <<>>
    /\ renderedFrom' = 0
    /\ loadingHidden' = showLoading(TRUE).loading
    /\ questionHidden' = showLoading(TRUE).question
    /\ fetchSeq' = fetchSeq + 1
    /\ inflight' = inflight \cup {fetchSeq + 1}
    /\ newPlayerHidden' = TRUE
    /\ lastAlert' = NoAlert
    /\ uncaught' = "none"
    /\ UNCHANGED <<now, storage, scoreTable, listeners>>

(***************************************************************************)
(* A day passes; the browser drops the cookies that have expired.          *)
(***************************************************************************)
Tick ==
    /\ now < MaxNow
    /\ now' = now + 1
    /\ cookieJar' = Live(cookieJar, now + 1)
    /\ UNCHANGED <<storage, usernameInput, newPlayerHidden, loadingHidden,
                   questionHidden, rendered, selection, scoreTable, fetchSeq,
                   inflight, renderedFrom, listeners, lastAlert, uncaught>>

(***************************************************************************)
(* Spec: the page with its handlers invoked on every state.  The handlers  *)
(* are run directly, as the registration of lines 175-176 intends,         *)
(* whether or not `listeners` holds them.                                  *)
(***************************************************************************)
Next ==
    \/ PageLoad
    \/ \E text \in UsernameInputs : TypeUsername(text)
    \/ \E index \in 1..Len(rendered) :
          \E choice \in 1..Len(rendered[index]) : SelectAnswer(index, choice)
    \/ \E id \in inflight, questions \in RoundResponses :
          FetchResolve(id, questions)
    \/ \E id \in inflight : FetchNoResults(id)
    \/ \E id \in inflight : FetchReject(id)
    \/ HandleFormSubmit
    \/ NewPlayer

Spec == Init /\ [][Next]_vars

(***************************************************************************)
(* QuizSpec: one round of the quiz on every response of the API up to      *)
(* MaxQuestions questions: render, select, submit.                         *)
(***************************************************************************)
QuizNext ==
    \/ \E id \in inflight, questions \in Responses : FetchResolve(id, questions)
    \/ \E index \in 1..Len(rendered) :
          \E choice \in 1..Len(rendered[index]) : SelectAnswer(index, choice)
    \/ HandleFormSubmit

QuizSpec == Init /\ [][QuizNext]_vars

(***************************************************************************)
(* CookieSpec: setCookie and clearCookie applied to names and values drawn *)
(* from bounded sets, with the clock running.                              *)
(***************************************************************************)
CookieChars == {"a", ";", " "}

CookieValues == SeqsUpTo(CookieChars, MaxValueLen)

CookieNames == {triviaUsername, <<"u">>}

TTLDays == {1, SessionDays}

SetCookieStep(name, value, days) ==
    /\ cookieJar' = setCookie(cookieJar, now, name, value, days)
    /\ UNCHANGED <<now, storage, usernameInput, newPlayerHidden,
                   loadingHidden, questionHidden, rendered, selection,
                   scoreTable, fetchSeq, inflight, renderedFrom, listeners,
                   lastAlert, uncaught>>

ClearCookieStep(name) ==
    /\ cookieJar' = clearCookie(cookieJar, now, name)
    /\ UNCHANGED <<now, storage, usernameInput, newPlayerHidden,
                   loadingHidden, questionHidden, rendered, selection,
                   scoreTable, fetchSeq, inflight, renderedFrom, listeners,
                   lastAlert, uncaught>>

CookieInit == Init /\ storage = Absent

CookieNext ==
    \/ \E name \in CookieNames, value \in CookieValues, days \in TTLDays :
          SetCookieStep(name, value, days)
    \/ \E name \in CookieNames : ClearCookieStep(name)
    \/ Tick

CookieSpec == CookieInit /\ [][CookieNext]_vars

\* C5: set(name, value, ttlDays) followed by get(name) before expiry returns
\* exactly value, and after clear(name) get(name) returns null.
C5_SessionRoundTrip ==
    [][\A name \in CookieNames :
          /\ \A value \in CookieValues, days \in TTLDays :
                SetCookieStep(name, value, days) =>
                    getCookie(DocumentCookie(cookieJar', now'), name) = value
          /\ ClearCookieStep(name) =>
                getCookie(DocumentCookie(cookieJar', now'), name) = null]_vars

(***************************************************************************)
(* Properties.                                                             *)
(***************************************************************************)
Blank(text) == \A i \in 1..Len(text) : text[i] = " "

Ledger(stored) == IF stored.kind = "array" THEN stored.entries ELSE <<>>

Checked(index) == selection[index] # 0

CheckedCorrect(index) ==
    Checked(index) /\ rendered[index][selection[index]].correct

\* C1: the rendered questions are either empty or the batch of the most
\* recently started fetch; results of an earlier fetch are never rendered
\* after a reset.
C1_NoStaleRender == rendered = <<>> \/ renderedFrom = fetchSeq

\* C2: the initialization routine completes without raising an error and
\* leaves the submit handler and the new-player handler registered.
C2_InitRegistersHandlers ==
    uncaught # "ReferenceError" /\ listeners = Handlers

\* C3: a submit whose username is empty or only whitespace reports a
\* validation failure and leaves the cookie, the ledger, the score table,
\* the rendered questions and the new-player control as they were.
C3_EmptyUsernameNoChange ==
    [][HandleFormSubmit /\ Blank(usernameInput) =>
          /\ lastAlert' = ValidationAlert
          /\ uncaught' = "none"
          /\ UNCHANGED <<cookieJar, storage, scoreTable, rendered, selection,
                         newPlayerHidden, usernameInput>>]_vars

C3_Witness ==
    /\ lastAlert = ValidationAlert
    /\ usernameInput = <<" ">>
    /\ \E index \in 1..Len(rendered) : CheckedCorrect(index)

\* C4: every step leaves the persisted ledger unchanged or replaces it with
\* the previous ledger followed by exactly one new entry at the end.
C4_LedgerAppendOnly ==
    [][\/ storage' = storage
       \/ /\ storage'.kind = "array"
          /\ Len(storage'.entries) = Len(Ledger(storage)) + 1
          /\ SubSeq(storage'.entries, 1, Len(Ledger(storage))) = Ledger(storage)]_vars

C4_Witness ==
    /\ storage.kind = "array"
    /\ Len(storage.entries) = 2
    /\ storage.entries[1] = [username |-> Bob, score |-> 0]
    /\ storage.entries[2] = [username |-> Bob, score |-> 1]

\* C6: when a fetch fails the loading indicator ends hidden, the question
\* container is empty and no exception escapes to the page.
C6_FailedFetchLeavesEmpty ==
    [][\A id \in inflight :
          FetchReject(id) \/ FetchNoResults(id) =>
              loadingHidden' /\ rendered' = <<>> /\ uncaught' = "none"]_vars

Occurrences(seq, x) == Cardinality({i \in 1..Len(seq) : seq[i] = x})

RenderedExactly(blocks, questions) ==
    /\ Len(blocks) = Len(questions)
    /\ \A index \in 1..Len(questions) :
          LET q == questions[index]
              answers == <<q.correct_answer>> \o q.incorrect_answers
              texts == [i \in 1..Len(blocks[index]) |-> blocks[index][i].value]
          IN  /\ Len(blocks[index]) = 1 + Len(q.incorrect_answers)
              /\ \A a \in {"x", "y", "z"} :
                    Occurrences(texts, a) = Occurrences(answers, a)
              /\ Cardinality({i \in 1..Len(blocks[index]) :
                                 blocks[index][i].correct}) = 1

NoDuplicateOfCorrect(questions) ==
    \A index \in 1..Len(questions) :
        Occurrences(questions[index].incorrect_answers,
                    questions[index].correct_answer) = 0

C8_ScoreCountsCorrect ==
    [][HandleFormSubmit /\ lastAlert'.kind = "finished" =>
          LET N == Len(rendered)
              score == lastAlert'.score
          IN  /\ score = Cardinality({i \in 1..N : CheckedCorrect(i)})
              /\ score \in 0..N
              /\ (\A i \in 1..N : ~Checked(i)) => score = 0
              /\ (\A i \in 1..N : CheckedCorrect(i)) => score = N]_vars

C8_Witness ==
    /\ lastAlert = FinishedAlert(2)
    /\ Len(rendered) = 2
    /\ Len(rendered[1]) = 2
    /\ CheckedCorrect(1)
    /\ CheckedCorrect(2)

\* C9: the score table shows exactly one row per entry of the persisted
\* ledger, in ledger order, after page load and after every accepted submit.
C9_TableShowsLedger == scoreTable = Ledger(storage)

\* C10: a ledger value that is not valid JSON is treated as empty: a submit
\* with a non-empty username completes without raising and the ledger then
\* holds the new entry.
C10_CorruptLedgerIsEmpty ==
    [][HandleFormSubmit /\ storage.kind = "invalid" /\ ~Blank(usernameInput) =>
          /\ uncaught' = "none"
          /\ storage' = JSONstringify(
                 <<[username |-> Trim(usernameInput),
                    score |-> calculateScore(rendered, selection)]>>)]_vars

\* C11: exactly one of the loading indicator and the question area is
\* visible in every state, across every interleaving of fetch starts, fetch
\* completions, submits and new-player actions.
C11_ExactlyOneVisible == loadingHidden # questionHidden

C11_Witness ==
    /\ fetchSeq = 2
    /\ inflight = {2}
    /\ loadingHidden
    /\ ~questionHidden
    /\ lastAlert.kind = "finished"

(***************************************************************************)
(* SessionSpec: the session across page loads, submits, new-player actions *)
(* and days, with a username that holds a ";".                             *)
(***************************************************************************)
SessionUsernames == {Bob, <<"a", ";", "b">>}

SessionNext ==
    \/ PageLoad
    \/ \E text \in SessionUsernames : TypeUsername(text)
    \/ HandleFormSubmit
    \/ NewPlayer
    \/ Tick

SessionSpec == Init /\ [][SessionNext]_vars

\* The username held by the session cookie: the value the cookie was
\* written with, or null when no live cookie has the session's name.
StoredUsername(jar, t) ==
    LET session == SelectSeq(Live(jar, t),
                       LAMBDA c : c.name = encodeURIComponent(triviaUsername))
    IN  IF session = <<>> THEN null
        ELSE decodeURIComponent(session[1].value)

SessionRestored ==
    LET stored == StoredUsername(cookieJar, now)
    IN  IF stored # null
        THEN usernameInput = stored /\ ~newPlayerHidden
        ELSE usernameInput = <<>> /\ newPlayerHidden

\* C12: initialization restores the session: when the session cookie holds
\* a username the field is populated with it and the new-player control is
\* visible; otherwise the field is blank and the control hidden.
C12_InitRestoresSession ==
    SessionRestored /\ [][PageLoad => SessionRestored']_vars

\* C13: when the new-player handler returns, the session cookie is absent,
\* the question container is empty, the username field is blank, the
\* new-player control is hidden and exactly one new fetch has been started.
C13_NewPlayerEndsFresh ==
    [][NewPlayer =>
          /\ StoredUsername(cookieJar', now') = null
          /\ getCookie(DocumentCookie(cookieJar', now'), triviaUsername) = null
          /\ rendered' = <<>>
          /\ usernameInput' = <<>>
          /\ newPlayerHidden'
          /\ fetchSeq' = fetchSeq + 1
          /\ inflight' = inflight \cup {fetchSeq + 1}
          /\ fetchSeq + 1 \notin inflight]_vars

C13_Witness ==
    /\ fetchSeq = 2
    /\ inflight = {2}
    /\ ~loadingHidden
    /\ rendered = <<>>
    /\ usernameInput = <<>>
    /\ newPlayerHidden
    /\ cookieJar = <<>>
    /\ scoreTable # <<>>

\* C14: after an accepted submit with username u, reading the session
\* returns exactly u, the new-player control is visible and exactly one
\* entry (u, computed score) has been appended to the ledger.
C14_SubmitEndsActive ==
    [][HandleFormSubmit /\ ~Blank(usernameInput) =>
          LET u == Trim(usernameInput)
              entry == [username |-> u,
                        score |-> calculateScore(rendered, selection)]
          IN  /\ getCookie(DocumentCookie(cookieJar', now'), triviaUsername) = u
              /\ ~newPlayerHidden'
              /\ storage' = JSONstringify(Append(Ledger(storage), entry))]_vars

\* C15: on an accepted submit whose username equals the username the
\* session cookie holds, the cookie's value and expiry are left unchanged.
C15_SameUsernameKeepsCookie ==
    [][/\ HandleFormSubmit
       /\ ~Blank(usernameInput)
       /\ StoredUsername(cookieJar, now) = Trim(usernameInput)
       => cookieJar' = cookieJar]_vars

\* C16: at most one score entry is appended per fetched batch of
\* questions: a submit that follows an accepted submit, with no fetch
\* started or settled in between, leaves the ledger unchanged.
C16_OneEntryPerRound ==
    [][HandleFormSubmit /\ lastAlert.kind = "finished" =>
          storage' = storage]_vars

(***************************************************************************)
(* LiveSpec: Spec with the assumption that a fetch in flight eventually    *)
(* settles, its promise chain of lines 97-108 ending in the second then    *)
(* or in the catch.                                                        *)
(***************************************************************************)
FetchSettle ==
    \E id \in inflight :
       \/ \E questions \in RoundResponses : FetchResolve(id, questions)
       \/ FetchNoResults(id)
       \/ FetchReject(id)

LiveSpec == Init /\ [][Next]_vars /\ WF_vars(FetchSettle)

FetchStarted == PageLoad \/ NewPlayer

QuestionsShown == loadingHidden /\ ~questionHidden

\* C17: every started fetch shows the loading indicator at once, and if
\* fetches in flight eventually settle the page is, after any sequence of
\* page loads, submits and new-player actions, eventually in a state with
\* the loading indicator hidden and the question area visible.
C17_LoadingThenQuestions ==
    /\ [][FetchStarted => ~loadingHidden']_vars
    /\ []<>QuestionsShown

C17_Witness ==
    /\ QuestionsShown
    /\ inflight = {}
    /\ fetchSeq = 2
    /\ rendered # <<>>
    /\ scoreTable # <<>>

\* C18: whenever at least one fetch is in flight the loading indicator is
\* visible and the question area is hidden, also when two fetches overlap
\* and the first of them completes.
C18_LoadingWhileInFlight ==
    inflight # {} => ~loadingHidden /\ questionHidden

====
